---- MODULE Spec2Model ----
(***************************************************************************)
(* Client-side session / request / route-guard lifecycle of the IMS front  *)
(* end: the auth Redux slice, the axios instance with its two              *)
(* interceptors, the PrivateRoute guard and the screens that drive them.   *)
(***************************************************************************)
EXTENDS Integers, Sequences, FiniteSets, TLC

\* ------------------------------------------------------------------ bounds
\* Number of HTTP requests issued in one behaviour.
MaxReq == 2

\* ------------------------------------------------------- program constants
\* error.response?.status === 401
Unauthorized == 401

\* JavaScript null for the token, the stored item and response fields.
Null == "null"

\* Tokens the backend hands out in {access: <token>} (non-empty strings).
Tokens == {"t1", "t2"}

\* null for a message (auth.error, response detail): no text at all.
NoMessage == <<>>

\* The text setError looks for with String.includes.
InvalidCredentials == "Invalid username or password"

\* Fallback text of the Login screen when the failure carries no detail.
LoginFallback == <<"Failed to login. Please try again.">>

\* detail strings a backend failure may carry, as sequences of text chunks
\* (so that includes() is a real containment test).
Details == { <<"Login failed: ", InvalidCredentials>>, <<"Server error">> }

\* No Authorization header on a request.
NoHeader == <<>>

\* Route table of App: the four public routes, then "/*" under PrivateRoute.
PublicPaths == {"/login", "/register", "/forgot-password", "/reset-password/:token"}
ProtectedPaths == {"/", "/stock"}
Paths == PublicPaths \cup ProtectedPaths

Requests == 1..MaxReq

VARIABLES
    auth,        \* state.auth of the Redux store
    storage,     \* localStorage item 'token' (Null when absent)
    location,    \* current router location
    view,        \* element produced by the last render of <App/>
    req,         \* the HTTP requests: position, sender, header, outcome
    redirecting, \* window.location.href = '/login' assigned, document not yet replaced
    granted,     \* history: token of the latest setToken not yet followed by a
                 \* logout or a 401 invalidation (Null when there is none)
    screen,      \* the inventory screen mounted inside the protected layout
    inventory,   \* state.inventory of the Redux store
    form,        \* the modal form of the mounted screen and its local state
    calls,       \* the thunk calls: position, thunk, request line, caller
    history,     \* the tab's session history up to the current entry
    formData,    \* Login: the username and password typed into the form
    validationErrors, \* Login: the fields validateForm has flagged
    filters,     \* state.inventory.filters
    resource,    \* the list of state.inventory whose thunks are followed
    items,       \* state.inventory[resource]: products, categories or stock
    backend,     \* the rows of that resource in the backend's database
    rowCalls,    \* the thunk calls on that resource, with the backend's answer
    selection,   \* InventoryPredictions: selectedProduct and timeRange
    predictions, \* state.predictions of the Redux store
    predCalls    \* the fetchPredictions calls in flight

\* The variables of the inventory screens.
invVars == <<screen, inventory, form, calls>>

\* The variables that one specification each follows: the session history
\* (SpecNav), the Login form (SpecLogin), the filters (SpecFilters), one
\* list with its backend (SpecRows), the predictions (SpecPred). The other
\* specifications leave them at their initial values.
navVars == <<history>>
loginVars == <<formData, validationErrors>>
filterVars == <<filters>>
rowVars == <<resource, items, backend, rowCalls>>
predVars == <<selection, predictions, predCalls>>
otherVars == <<loginVars, filterVars, rowVars, predVars>>
extVars == <<navVars, otherVars>>

sessionVars == <<auth, storage, location, view, req, redirecting, granted>>

vars == <<auth, storage, location, view, req, redirecting, granted,
          screen, inventory, form, calls,
          history, formData, validationErrors, filters,
          resource, items, backend, rowCalls,
          selection, predictions, predCalls>>

\* ------------------------------------------------------------ auth slice
\* A store value pairs state.auth with the localStorage item the reducers
\* read and write as a side effect.
Store(a, s) == [auth |-> a, storage |-> s]

Cur == Store(auth, storage)

\* !!x for a token-or-null value.
Truthy(x) == x # Null /\ x # ""

\* Mutant: the store always starts Anonymous, whatever is stored.
initialStateAnonymous(stored) ==
    [token |-> stored,
     isAuthenticated |-> FALSE,
     loading |-> FALSE,
     error |-> NoMessage,
     user |-> Null]

initialState(stored) ==
    [token |-> stored,
     isAuthenticated |-> Truthy(stored),
     loading |-> FALSE,
     error |-> NoMessage,
     user |-> Null]

setToken(st, payload) ==
    Store([st.auth EXCEPT !.token = payload, !.isAuthenticated = TRUE], payload)

\* Mutant: logout flips the flag, so a logout in an Anonymous session signs in.
logoutToggles(st) ==
    Store([st.auth EXCEPT !.token = Null, !.isAuthenticated = ~st.auth.isAuthenticated,
                          !.error = NoMessage],
          Null)

logout(st) ==
    Store([st.auth EXCEPT !.token = Null, !.isAuthenticated = FALSE, !.error = NoMessage],
          Null)

setLoading(st, payload) ==
    Store([st.auth EXCEPT !.loading = payload], st.storage)

\* String.prototype.includes on a message made of text chunks.
includes(msg, text) == \E i \in 1..Len(msg) : msg[i] = text

\* Mutant: the session is cleared on every error message.
setErrorClearsOnAnyError(st, payload) ==
    IF payload # NoMessage
    THEN Store([st.auth EXCEPT !.error = payload, !.loading = FALSE,
                               !.token = Null, !.isAuthenticated = FALSE],
               Null)
    ELSE Store([st.auth EXCEPT !.error = payload, !.loading = FALSE], st.storage)

setError(st, payload) ==
    IF payload # NoMessage /\ includes(payload, InvalidCredentials)
    THEN Store([st.auth EXCEPT !.error = payload, !.loading = FALSE,
                               !.token = Null, !.isAuthenticated = FALSE],
               Null)
    ELSE Store([st.auth EXCEPT !.error = payload, !.loading = FALSE], st.storage)

clearError(st) ==
    Store([st.auth EXCEPT !.error = NoMessage], st.storage)

\* ------------------------------------------------------------ the Gateway
\* Mutant: the header is built from the token in the Redux store.
requestInterceptorFromStore(stored) ==
    IF Truthy(auth.token) THEN <<"Bearer", auth.token>> ELSE NoHeader

\* api.interceptors.request: the header is built from localStorage at send time.
requestInterceptor(stored) ==
    IF Truthy(stored) THEN <<"Bearer", stored>> ELSE NoHeader

\* Mutant: the redirect is triggered but the stored token is kept.
responseInterceptorKeepsToken(stored, redir, outcome) ==
    IF outcome.hasResponse /\ outcome.status = Unauthorized
    THEN [storage |-> stored, redirecting |-> TRUE]
    ELSE [storage |-> stored, redirecting |-> redir]

\* Mutant: every error response invalidates, not only a 401.
responseInterceptorAnyStatus(stored, redir, outcome) ==
    IF outcome.hasResponse
    THEN [storage |-> Null, redirecting |-> TRUE]
    ELSE [storage |-> stored, redirecting |-> redir]

\* Mutant: a 401 invalidates only when the stored token is the one a request
\* in flight was sent with.
responseInterceptorSameToken(stored, redir, outcome) ==
    IF /\ outcome.hasResponse /\ outcome.status = Unauthorized
       /\ \E r \in DOMAIN req :
            req[r].pc = "inflight" /\ req[r].authorization = requestInterceptor(stored)
    THEN [storage |-> Null, redirecting |-> TRUE]
    ELSE [storage |-> stored, redirecting |-> redir]

\* api.interceptors.response, error branch: what it does to localStorage and
\* window.location before it rejects.
responseInterceptor(stored, redir, outcome) ==
    IF outcome.hasResponse /\ outcome.status = Unauthorized
    THEN [storage |-> Null, redirecting |-> TRUE]
    ELSE [storage |-> stored, redirecting |-> redir]

\* ------------------------------------------------------------ route guard
\* Mutant: the guard renders its children whatever the session is.
PrivateRouteUnguarded(isAuthenticated) ==
    "children"

PrivateRoute(isAuthenticated) ==
    IF ~isAuthenticated THEN "Navigate" ELSE "children"

\* <Routes> of App: the element rendered for a location.
App(path, isAuthenticated) ==
    CASE path = "/login" -> "Login"
      [] path = "/register" -> "Register"
      [] path = "/forgot-password" -> "ForgotPassword"
      [] path = "/reset-password/:token" -> "ResetPassword"
      [] OTHER -> PrivateRoute(isAuthenticated)

Views == {"none", "Login", "Register", "ForgotPassword", "ResetPassword",
          "Navigate", "children"}

\* ------------------------------------------------------------ requests
NoOutcome == [hasResponse |-> FALSE, status |-> 0, detail |-> NoMessage, access |-> Null]

Unsent == [pc |-> "unsent", via |-> "api", caller |-> "screen",
           authorization |-> NoHeader, outcome |-> NoOutcome]

\* A Pending Request is destroyed when its outcome has been delivered
\* ("settled") or its document has been unloaded ("aborted").
Gone(how) == [Unsent EXCEPT !.pc = how]

\* What the backend (or the transport) may answer.
Success(data) == [hasResponse |-> TRUE, status |-> 200, detail |-> NoMessage, access |-> data]
Failure(status, detail) == [hasResponse |-> TRUE, status |-> status, detail |-> detail, access |-> Null]
NetworkError == NoOutcome

LoginOutcomes ==
    {Success(t) : t \in Tokens}
    \cup {Failure(s, d) : s \in {400, Unauthorized}, d \in Details \cup {NoMessage}}
    \cup {NetworkError}

ScreenOutcomes ==
    {Success(Null), NetworkError}
    \cup {Failure(s, NoMessage) : s \in {400, Unauthorized}}

OutcomesFor(r) == IF req[r].caller = "Login" THEN LoginOutcomes ELSE ScreenOutcomes

\* A response is being handled: its promise chain (interceptor, then the
\* caller's continuation) runs to completion before any other task.
Busy == \E r \in Requests : req[r].pc = "intercepted"

Fresh(r) == req[r].pc = "unsent" /\ \A q \in 1..(r-1) : req[q].pc # "unsent"

\* ------------------------------------------------------ inventory slice
\* Ids of products, categories and stock movements.
Ids == {"1", "2"}

\* products_count values a category may come with.
Counts == {0, 3}

\* The thunks of the inventory slice.
FetchThunks == {"fetchDashboardData", "fetchProducts", "fetchCategories", "fetchStock"}
CreateThunks == {"createProduct", "createCategory", "createStock"}
UpdateThunks == {"updateProduct", "updateCategory", "updateStock"}
DeleteThunks == {"deleteProduct", "deleteCategory", "deleteStock"}
Thunks == FetchThunks \cup CreateThunks \cup UpdateThunks \cup DeleteThunks

\* The argument of a thunk that takes none we track: the created row's data.
NoArg == ""

\* timeRange of the Dashboard: useState('30').
Days == "30"

\* The request a thunk hands to the api instance: method and path, the path
\* as its segments ('/api/products/1/' is <<"api", "products", "1">>).
Endpoint(type, arg) ==
    CASE type = "fetchProducts" -> [method |-> "GET", url |-> <<"api", "products">>]
      [] type = "createProduct" -> [method |-> "POST", url |-> <<"api", "products">>]
      [] type = "updateProduct" -> [method |-> "PUT", url |-> <<"api", "products", arg>>]
      [] type = "deleteProduct" -> [method |-> "DELETE", url |-> <<"api", "products", arg>>]
      [] type = "fetchCategories" -> [method |-> "GET", url |-> <<"api", "categories">>]
      [] type = "createCategory" -> [method |-> "POST", url |-> <<"api", "categories">>]
      [] type = "updateCategory" -> [method |-> "PUT", url |-> <<"api", "categories", arg>>]
      [] type = "deleteCategory" -> [method |-> "DELETE", url |-> <<"categories", arg>>]
      [] type = "fetchDashboardData" ->
            [method |-> "GET", url |-> <<"api", "dashboard", "?days=", arg>>]
      [] type = "fetchStock" -> [method |-> "GET", url |-> <<"api", "stocks">>]
      [] type = "createStock" -> [method |-> "POST", url |-> <<"api", "stocks">>]
      [] type = "updateStock" -> [method |-> "PUT", url |-> <<"api", "stocks", arg>>]
      [] type = "deleteStock" -> [method |-> "DELETE", url |-> <<"api", "stocks", arg>>]

\* error.message of an axios error ('Network Error', 'Request failed with
\* status code 400'): never empty, so fetchDashboardData never reaches its
\* own fallback text.
AxiosMessage == <<"Request failed">>

\* The text a thunk rejects with when the failure carries no response data.
Fallback(type) ==
    CASE type = "fetchProducts" -> <<"Failed to fetch products">>
      [] type = "createProduct" -> <<"Failed to create product">>
      [] type = "updateProduct" -> <<"Failed to update product">>
      [] type = "deleteProduct" -> <<"Failed to delete product">>
      [] type = "fetchCategories" -> <<"Failed to fetch categories">>
      [] type = "createCategory" -> <<"Failed to create category">>
      [] type = "updateCategory" -> <<"Failed to update category">>
      [] type = "fetchDashboardData" -> AxiosMessage
      [] type = "fetchStock" -> <<"Failed to fetch stock movements">>
      [] type = "createStock" -> <<"Failed to create stock movement">>
      [] type = "updateStock" -> <<"Failed to update stock movement">>
      [] type = "deleteStock" -> <<"Failed to delete stock movement">>
      [] type = "fetchPredictions" -> <<"Failed to fetch predictions">>
      [] OTHER -> NoMessage

\* rejectWithValue(error.response?.data || <fallback>): the payload of a
\* rejected thunk, as the text it shows.
rejectWithValue(type, outcome) ==
    IF outcome.hasResponse /\ outcome.detail # NoMessage
    THEN outcome.detail
    ELSE Fallback(type)

\* state.inventory: loading, error and the category rows. The product and
\* stock rows, the dashboard data and the filters are not tracked.
inventoryInitialState ==
    [loading |-> FALSE, error |-> NoMessage, categories |-> <<>>]

\* reducers.clearError of the inventory slice.
inventoryClearError(inv) == [inv EXCEPT !.error = NoMessage]

\* A category row.
Category(id, count) == [id |-> id, products_count |-> count]

\* The ids of the rows of a list.
IdsOf(rows) == {rows[i].id : i \in 1..Len(rows)}

\* rows.findIndex(c => c.id === id): the first such position, from 1; -1 if none.
findIndex(rows, id) ==
    IF id \in IdsOf(rows)
    THEN CHOOSE j \in 1..Len(rows) :
            rows[j].id = id /\ \A k \in 1..(j-1) : rows[k].id # id
    ELSE -1

\* rows.filter(c => c.id !== id)
Without(rows, id) == SelectSeq(rows, LAMBDA c : c.id # id)

\* extraReducers, the <thunk>.pending cases.
pending(inv, type) ==
    IF type \in FetchThunks
    THEN [inv EXCEPT !.loading = TRUE, !.error = NoMessage]
    ELSE inv

\* The list of state.inventory that the fulfilled case of a thunk writes.
ListOf(type) ==
    CASE type \in {"fetchProducts", "createProduct", "updateProduct", "deleteProduct"}
            -> "products"
      [] type \in {"fetchCategories", "createCategory", "updateCategory", "deleteCategory"}
            -> "categories"
      [] type \in {"fetchStock", "createStock", "updateStock", "deleteStock"} -> "stock"
      [] OTHER -> "none"

\* Mutant: an update whose row is absent adds the row.
listFulfilledUpsert(list, type, arg, data) ==
    CASE type \in {"fetchProducts", "fetchCategories", "fetchStock"} -> data
      [] type \in {"createProduct", "createCategory"} -> Append(list, data[1])
      [] type = "createStock" -> <<data[1]>> \o list
      [] type \in UpdateThunks ->
            LET index == findIndex(list, data[1].id) IN
            IF index # -1
            THEN [list EXCEPT ![index] = data[1]]
            ELSE Append(list, data[1])
      [] type \in DeleteThunks -> Without(list, arg)
      [] OTHER -> list

\* What the fulfilled case of a product, category or stock thunk makes of
\* its list: fetch assigns the payload, create pushes it (createStock
\* unshifts), update overwrites the first row with the payload's id if
\* there is one, delete filters the id out. data is the rows in the payload.
listFulfilled(list, type, arg, data) ==
    CASE type \in {"fetchProducts", "fetchCategories", "fetchStock"} -> data
      [] type \in {"createProduct", "createCategory"} -> Append(list, data[1])
      [] type = "createStock" -> <<data[1]>> \o list
      [] type \in UpdateThunks ->
            LET index == findIndex(list, data[1].id) IN
            IF index # -1
            THEN [list EXCEPT ![index] = data[1]]
            ELSE list
      [] type \in DeleteThunks -> Without(list, arg)
      [] OTHER -> list

\* extraReducers, the <thunk>.fulfilled cases, with the category rows.
fulfilled(inv, type, arg, data) ==
    LET flags == CASE type = "fetchDashboardData" ->
                        [inv EXCEPT !.loading = FALSE, !.error = NoMessage]
                   [] type \in FetchThunks -> [inv EXCEPT !.loading = FALSE]
                   [] OTHER -> inv IN
    IF ListOf(type) = "categories"
    THEN [flags EXCEPT !.categories = listFulfilled(inv.categories, type, arg, data)]
    ELSE flags

\* extraReducers, the <thunk>.rejected cases.
rejected(inv, type, payload) ==
    CASE type \in FetchThunks -> [inv EXCEPT !.loading = FALSE, !.error = payload]
      [] type = "createCategory" -> [inv EXCEPT !.error = payload]
      [] OTHER -> inv

\* ------------------------------------------------------ inventory screens
Screens == {"Dashboard", "Products", "Categories", "InventoryCategories", "Stock"}

\* The thunks a screen dispatches from its mount effect, in order.
MountEffect(s) ==
    CASE s = "Dashboard" -> << <<"fetchDashboardData", Days>> >>
      [] s = "Products" -> << <<"fetchProducts", NoArg>>, <<"fetchCategories", NoArg>> >>
      [] s = "Categories" -> << <<"fetchCategories", NoArg>> >>
      [] s = "InventoryCategories" -> << <<"fetchCategories", NoArg>> >>
      [] s = "Stock" -> << <<"fetchStock", NoArg>>, <<"fetchProducts", NoArg>> >>
      [] s = "Predictions" -> << <<"fetchProducts", NoArg>> >>

\* if (loading) return <spinner/>: the rows, the buttons and the modal form
\* of a screen are rendered only when its loading flag is off.
Spinner(s, inv) == s \in {"Dashboard", "Products", "Categories", "Stock"} /\ inv.loading

\* The modal form a screen opens, what its handleSubmit dispatches, and the
\* text its catch block shows (err.message || <text>).
FormOf(s) ==
    CASE s = "Products" -> "ProductForm"
      [] s = "Categories" -> "CategoryForm"
      [] s = "Stock" -> "StockForm"
      [] OTHER -> "none"

FormThunks(f) ==
    CASE f = "ProductForm" -> {"createProduct", "updateProduct"}
      [] f = "CategoryForm" -> {"createCategory", "updateCategory"}
      [] f = "StockForm" -> {"createStock", "updateStock"}
      [] OTHER -> {}

FormFailure(f) ==
    CASE f = "ProductForm" -> <<"Failed to save product">>
      [] f = "CategoryForm" -> <<"Failed to save category">>
      [] f = "StockForm" -> <<"Failed to save stock movement">>
      [] OTHER -> NoMessage

\* No modal form is mounted. An open form has the row it edits (NoArg for a
\* new one), its error text and its isSubmitting flag.
NoForm == [open |-> "none", row |-> NoArg, error |-> NoMessage, isSubmitting |-> FALSE]

\* The delete button of a category row: disabled={category.products_count > 0}
\* on the Categories screen, no disabled attribute on the inventory one.
DeleteDisabled(s, category) ==
    IF s = "Categories" THEN category.products_count > 0 ELSE FALSE

\* What handleDelete of a screen dispatches.
DeleteThunk(s) ==
    CASE s = "Products" -> "deleteProduct"
      [] s \in {"Categories", "InventoryCategories"} -> "deleteCategory"
      [] s = "Stock" -> "deleteStock"
      [] OTHER -> "none"

\* ------------------------------------------------------ thunk calls
\* Calls that can be in flight at once.
Slots == {1, 2}

Idle == [pc |-> "idle", type |-> "none", arg |-> NoArg, method |-> "", url |-> <<>>,
         authorization |-> NoHeader, caller |-> "none", failed |-> FALSE]

\* A call whose promise has settled; only its result is kept.
Settled(failed) == [Idle EXCEPT !.pc = "settled", !.failed = failed]

FreeSlots(cs) == {c \in Slots : cs[c].pc # "inflight"}

\* dispatch(thunk(arg)): the pending reducer runs and the request leaves
\* through the api instance, with the header of the token stored now.
dispatch(st, type, arg, caller) ==
    LET c == CHOOSE x \in FreeSlots(st.calls) : \A y \in FreeSlots(st.calls) : x <= y IN
    [calls |-> [st.calls EXCEPT ![c] =
                    [pc |-> "inflight", type |-> type, arg |-> arg,
                     method |-> Endpoint(type, arg).method,
                     url |-> Endpoint(type, arg).url,
                     authorization |-> requestInterceptor(storage),
                     caller |-> caller, failed |-> FALSE]],
     inventory |-> pending(st.inventory, type)]

RECURSIVE dispatchAll(_, _, _)
dispatchAll(st, thunks, caller) ==
    IF thunks = <<>> THEN st
    ELSE dispatchAll(dispatch(st, Head(thunks)[1], Head(thunks)[2], caller), Tail(thunks), caller)

\* What the backend may answer to a thunk: the rows of a success, or a failure.
ThunkSuccess(rows) == [hasResponse |-> TRUE, status |-> 200, detail |-> NoMessage, data |-> rows]
ThunkFailure(status, detail) ==
    [hasResponse |-> TRUE, status |-> status, detail |-> detail, data |-> <<>>]
ThunkNetworkError == [hasResponse |-> FALSE, status |-> 0, detail |-> NoMessage, data |-> <<>>]

\* The category lists of the backend: rows with distinct ids.
CategoryLists ==
    {<<>>}
    \cup {<<Category(i, n)>> : i \in Ids, n \in Counts}
    \cup {<<Category(p[1], n), Category(p[2], m)>> :
            p \in {q \in Ids \X Ids : q[1] # q[2]}, n \in Counts, m \in Counts}

\* Every answer to any thunk.
AllThunkOutcomes ==
    {ThunkSuccess(rows) : rows \in CategoryLists}
    \cup {ThunkNetworkError, ThunkFailure(400, <<"Server error">>),
          ThunkFailure(Unauthorized, NoMessage)}

\* The answers to one thunk, given the rows the client holds.
ThunkOutcomes(type, arg, inv) ==
    (CASE type = "fetchCategories" -> {ThunkSuccess(rows) : rows \in CategoryLists}
       [] type = "createCategory" ->
            {ThunkSuccess(<<Category(i, 0)>>) : i \in Ids \ IdsOf(inv.categories)}
       [] type = "updateCategory" -> {ThunkSuccess(<<Category(arg, n)>>) : n \in Counts}
       [] OTHER -> {ThunkSuccess(<<>>)})
    \cup {ThunkNetworkError, ThunkFailure(400, <<"Server error">>),
          ThunkFailure(Unauthorized, NoMessage)}

\* ------------------------------------------------- other initial values
\* A session history entry: the location, and whether the entry belongs to
\* the document on display (an entry of an earlier document is reached by
\* loading the page again).
Entry(path, live) == [path |-> path, live |-> live]

\* The session history keeps its latest MaxHistory entries.
MaxHistory == 2

\* history.pushState: a new entry after the current one.
push(h, path) ==
    IF Len(h) < MaxHistory THEN Append(h, Entry(path, TRUE))
    ELSE Append(Tail(h), Entry(path, TRUE))

\* history.replaceState: the current entry is overwritten.
replace(h, path) ==
    [h EXCEPT ![Len(h)] = Entry(path, TRUE)]

\* A new document: the entries written so far belong to earlier documents.
Unloaded(h) == [i \in 1..Len(h) |-> Entry(h[i].path, FALSE)]

\* Mutant: the guard's redirect pushes a new entry.
NavigatePush(h) ==
    push(h, "/login")

\* PrivateRoute: <Navigate to="/login" replace />.
Navigate(h) ==
    replace(h, "/login")

\* Login: useState({ username: '', password: '' }); strings are sequences
\* of characters.
formDataInitial == [username |-> <<>>, password |-> <<>>]

\* Login: useState({}) of validationErrors; a field without an error is ''.
NoErrors == [username |-> "", password |-> ""]

\* The least length validateForm accepts for a password.
MinPassword == 8

\* String.prototype.trim on a sequence of characters.
RECURSIVE trimStart(_)
trimStart(str) ==
    IF str # <<>> /\ Head(str) = " " THEN trimStart(Tail(str)) ELSE str

RECURSIVE trimEnd(_)
trimEnd(str) ==
    IF str # <<>> /\ str[Len(str)] = " " THEN trimEnd(SubSeq(str, 1, Len(str) - 1)) ELSE str

trim(str) == trimEnd(trimStart(str))

\* Mutant: any non-empty password passes.
validateFormAnyPassword(data) ==
    [username |-> IF trim(data.username) = <<>> THEN "Username is required" ELSE "",
     password |-> IF data.password = <<>> THEN "Password is required" ELSE ""]

\* Login.validateForm: the errors it hands to setValidationErrors.
validateForm(data) ==
    [username |-> IF trim(data.username) = <<>> THEN "Username is required" ELSE "",
     password |-> IF data.password = <<>> THEN "Password is required"
                  ELSE IF Len(data.password) < MinPassword
                  THEN "Password must be at least 8 characters"
                  ELSE ""]

\* What the user may type: a blank, a padded and a plain username; an
\* empty, a short and a long enough password.
Usernames == {<<>>, <<" ", " ">>, <<" ", "b", "o", "b", " ">>, <<"b", "o", "b">>}
Passwords == {[i \in 1..n |-> "x"] : n \in {0, MinPassword - 1, MinPassword}}

\* initialState.filters of the inventory slice.
filtersInitial ==
    [products |-> [search |-> "", category |-> "", sortBy |-> "name",
                   sortOrder |-> "asc", stockStatus |-> ""],
     categories |-> [search |-> "", sortBy |-> "name", sortOrder |-> "asc"]]

\* state.filters[section][filter] = value: the property is written, and
\* created when the section does not have it.
setFilter(fs, section, filter, value) ==
    [fs EXCEPT ![section] =
        [f \in DOMAIN fs[section] \cup {filter} |->
            IF f = filter THEN value ELSE fs[section][f]]]

\* The clearFilters reducer: the section is assigned a new object.
clearFilters(fs, section) ==
    [fs EXCEPT ![section] = [category |-> "", stockStatus |-> ""]]

\* The values the filter controls offer.
FilterValues ==
    [category |-> {""} \cup Ids, stockStatus |-> {"", "low", "out"},
     search |-> {"", "tea"}, sortBy |-> {"name", "description"}]

\* The lists of state.inventory.
Resources == {"products", "categories", "stock"}

\* A row of a list as far as the reducers look at it: its id, and rev for
\* the rest of its content (0 as created, 1 once edited).
Row(id, rev) == [id |-> id, rev |-> rev]

\* The backend's table of the followed resource: its rows, and the ids it
\* has handed out (an id is never assigned twice).
backendInitial == [table |-> {}, used |-> {}]

\* The order in which the backend hands out ids and lists rows.
IdOrder == <<"1", "2">>

\* GET of the collection: the rows of the table, by id.
Listing(table) ==
    LET present == SelectSeq(IdOrder, LAMBDA i : \E r \in table : r.id = i) IN
    [k \in 1..Len(present) |-> CHOOSE r \in table : r.id = present[k]]

\* The id the backend gives the next created row.
NextId(used) ==
    LET free == SelectSeq(IdOrder, LAMBDA i : i \notin used) IN
    IF free = <<>> THEN NoArg ELSE Head(free)

\* The four thunks of a list.
ThunkOf(res, verb) ==
    CASE res = "products" ->
            [fetch |-> "fetchProducts", create |-> "createProduct",
             update |-> "updateProduct", delete |-> "deleteProduct"][verb]
      [] res = "categories" ->
            [fetch |-> "fetchCategories", create |-> "createCategory",
             update |-> "updateCategory", delete |-> "deleteCategory"][verb]
      [] res = "stock" ->
            [fetch |-> "fetchStock", create |-> "createStock",
             update |-> "updateStock", delete |-> "deleteStock"][verb]

\* The backend handles a request on its table: the answer (ok with the
\* rows of the payload, or a 404 for a row that is not there) and the
\* table afterwards.
handled(db, type, arg) ==
    CASE type \in FetchThunks ->
            [ok |-> TRUE, data |-> Listing(db.table), db |-> db]
      [] type \in CreateThunks ->
            IF NextId(db.used) = NoArg
            THEN [ok |-> FALSE, data |-> <<>>, db |-> db]
            ELSE LET row == Row(NextId(db.used), 0) IN
                 [ok |-> TRUE, data |-> <<row>>,
                  db |-> [table |-> db.table \cup {row}, used |-> db.used \cup {row.id}]]
      [] type \in UpdateThunks ->
            IF \E r \in db.table : r.id = arg
            THEN [ok |-> TRUE, data |-> <<Row(arg, 1)>>,
                  db |-> [db EXCEPT !.table = {r \in db.table : r.id # arg} \cup {Row(arg, 1)}]]
            ELSE [ok |-> FALSE, data |-> <<>>, db |-> db]
      [] type \in DeleteThunks ->
            IF \E r \in db.table : r.id = arg
            THEN [ok |-> TRUE, data |-> <<>>,
                  db |-> [db EXCEPT !.table = {r \in db.table : r.id # arg}]]
            ELSE [ok |-> FALSE, data |-> <<>>, db |-> db]

\* A rows call that has not been dispatched.
IdleRowCall == [pc |-> "idle", type |-> "none", arg |-> NoArg, ok |-> FALSE, data |-> <<>>]

\* No prediction data: the null of the slice's initial state.
NoPredictions == [productId |-> "", days |-> ""]

\* initialState of the predictions slice.
predictionsInitialState == [predictions |-> NoPredictions, loading |-> FALSE, error |-> NoMessage]

\* InventoryPredictions: useState('') and useState('30').
selectionInitial == [selectedProduct |-> "", timeRange |-> "30"]

\* A fetchPredictions call that has not been dispatched.
IdlePredCall == [pc |-> "idle", productId |-> "", days |-> ""]

\* The options of the Time Range select.
TimeRanges == {"7", "30", "90"}

\* GET /api/predictions/${productId}/?days=${days}: what the backend
\* returns is the prediction for that product over that range.
PredictionFor(productId, days) == [productId |-> productId, days |-> days]

\* extraReducers of the predictions slice.
predictionsPending(st) == [st EXCEPT !.loading = TRUE, !.error = NoMessage]
predictionsFulfilled(st, payload) == [st EXCEPT !.loading = FALSE, !.predictions = payload]
predictionsRejected(st, payload) == [st EXCEPT !.loading = FALSE, !.error = payload]

\* The state after construction, the followed list and the session history
\* left open.
InitCore ==
    /\ storage \in Tokens \cup {Null}
    /\ auth = initialState(storage)
    /\ location \in Paths
    /\ view = "none"
    /\ req = [r \in Requests |-> Unsent]
    /\ redirecting = FALSE
    /\ granted = storage
    /\ screen = "none"
    /\ inventory = inventoryInitialState
    /\ form = NoForm
    /\ calls = [c \in Slots |-> Idle]
    /\ formData = formDataInitial
    /\ validationErrors = NoErrors
    /\ filters = filtersInitial
    /\ items = <<>>
    /\ backend = backendInitial
    /\ rowCalls = [c \in Slots |-> IdleRowCall]
    /\ selection = selectionInitial
    /\ predictions = predictionsInitialState
    /\ predCalls = [c \in Slots |-> IdlePredCall]

Init ==
    /\ InitCore
    /\ resource = "none"
    /\ history = <<>>

\* ------------------------------------------------------------ rendering
\* Mutant: the Login screen navigates to '/' whatever the session is.
LoginEffectAlways(path, isAuthenticated) ==
    "/"

\* Login: useEffect(() => { if (isAuthenticated) navigate('/') }): where
\* the router is after the effects of a rendered Login have run.
LoginEffect(path, isAuthenticated) ==
    IF isAuthenticated THEN "/" ELSE path

\* Where the router is once a render of <App/> at path has committed its
\* effects: <Navigate to="/login" replace/> and the Login effect navigate.
Committed(path, isAuthenticated) ==
    LET element == App(path, isAuthenticated) IN
    CASE element = "Navigate" -> "/login"
      [] element = "Login" -> LoginEffect(path, isAuthenticated)
      [] OTHER -> path

\* One render of <App/> and the effects it commits: the route table, the
\* guard, the navigation of a rendered <Navigate to="/login" replace/>, and
\* the navigation of a rendered Login.
RenderStep ==
    /\ ~Busy
    /\ LET element == App(location, auth.isAuthenticated) IN
        /\ view' = element
        /\ location' = Committed(location, auth.isAuthenticated)
        /\ formData' = IF element = "Login" /\ view = "Login" THEN formData
                       ELSE formDataInitial
        /\ validationErrors' = IF element = "Login" /\ view = "Login"
                               THEN validationErrors ELSE NoErrors
    /\ UNCHANGED <<auth, storage, req, redirecting, granted>>
    /\ UNCHANGED invVars
    /\ UNCHANGED <<filterVars, rowVars, predVars>>

\* The render, the session history not followed.
Render ==
    /\ RenderStep
    /\ UNCHANGED navVars

\* The render with its writes to the session history: the guard's Navigate
\* replaces the current entry, the Login effect's navigate('/') pushes one.
NavRender ==
    /\ RenderStep
    /\ history' = CASE App(location, auth.isAuthenticated) = "Navigate" -> Navigate(history)
                     [] App(location, auth.isAuthenticated) = "Login" /\ auth.isAuthenticated
                            -> push(history, "/")
                     [] OTHER -> history

\* The screen on display is the one React renders for the current location
\* and store: its links, buttons and mount effects are live.
Shown(element) ==
    view = element /\ App(location, auth.isAuthenticated) = element

\* A <Link> click on the screen on display.
GotoStep(path) ==
    /\ ~Busy
    /\ \E element \in Views \ {"none", "Navigate"} : Shown(element)
    /\ path # location
    /\ location' = path
    /\ UNCHANGED <<auth, storage, view, req, redirecting, granted>>
    /\ UNCHANGED invVars
    /\ UNCHANGED otherVars

Goto(path) ==
    /\ GotoStep(path)
    /\ UNCHANGED navVars

\* The <Link> click with its history entry: a link pushes.
NavGoto(path) ==
    /\ GotoStep(path)
    /\ history' = push(history, path)

\* Login: the 5 s timer that dispatches setError(null) once an error shows.
LoginErrorTimer ==
    /\ ~Busy
    /\ view = "Login"
    /\ auth.error # NoMessage
    /\ LET st == setError(Cur, NoMessage) IN
        /\ auth' = st.auth
        /\ storage' = st.storage
    /\ UNCHANGED <<location, view, req, redirecting, granted>>
    /\ UNCHANGED invVars
    /\ UNCHANGED extVars

\* Navbar.handleLogout: dispatch(logout()); navigate('/login').
handleLogoutStep ==
    /\ ~Busy
    /\ Shown("children")
    /\ LET st == logout(Cur) IN
        /\ auth' = st.auth
        /\ storage' = st.storage
    /\ location' = "/login"
    /\ UNCHANGED <<view, req, redirecting>>
    /\ granted' = Null
    /\ UNCHANGED invVars
    /\ UNCHANGED otherVars

handleLogout ==
    /\ handleLogoutStep
    /\ UNCHANGED navVars

\* handleLogout with its history entry: navigate('/login') pushes.
NavLogout ==
    /\ handleLogoutStep
    /\ history' = push(history, "/login")

\* dispatch(clearError()) of the auth slice.
DispatchClearError ==
    /\ ~Busy
    /\ view # "none"
    /\ auth.error # NoMessage
    /\ LET st == clearError(Cur) IN
        /\ auth' = st.auth
        /\ storage' = st.storage
    /\ UNCHANGED <<location, view, req, redirecting, granted>>
    /\ UNCHANGED invVars
    /\ UNCHANGED extVars

\* ------------------------------------------------------------ sending
\* Login.handleSubmit up to the await: setLoading(true), setError(null),
\* api.post('/api/auth/token/').
LoginSubmitStep(r) ==
    /\ ~Busy
    /\ Shown("Login")
    /\ Fresh(r)
    /\ LET st == setError(setLoading(Cur, TRUE), NoMessage) IN
        /\ auth' = st.auth
        /\ storage' = st.storage
        /\ req' = [req EXCEPT ![r] = [pc |-> "inflight", via |-> "api", caller |-> "Login",
                                      authorization |-> requestInterceptor(st.storage),
                                      outcome |-> NoOutcome]]
    /\ UNCHANGED <<location, view, redirecting, granted>>
    /\ UNCHANGED invVars
    /\ UNCHANGED <<navVars, filterVars, rowVars, predVars>>

\* The submission of a form that passes validateForm, the content of the
\* form not followed.
LoginSubmit(r) ==
    /\ LoginSubmitStep(r)
    /\ UNCHANGED loginVars

\* Login.handleChange: the user types value into the field name (the
\* inputs are disabled while auth.loading).
handleChange(name, value) ==
    /\ ~Busy
    /\ Shown("Login")
    /\ ~auth.loading
    /\ formData[name] # value
    /\ formData' = [formData EXCEPT ![name] = value]
    /\ validationErrors' = [validationErrors EXCEPT ![name] = ""]
    /\ UNCHANGED sessionVars
    /\ UNCHANGED invVars
    /\ UNCHANGED <<navVars, filterVars, rowVars, predVars>>

\* Login.handleSubmit up to the await, with the form it reads: if
\* validateForm flags a field the handler returns, otherwise the request
\* is sent with formData as its body. The Remember-me box stays unchecked.
LoginHandleSubmit(r) ==
    /\ ~Busy
    /\ Shown("Login")
    /\ ~auth.loading
    /\ validationErrors' = validateForm(formData)
    /\ UNCHANGED formData
    /\ IF validateForm(formData) = NoErrors
       THEN LoginSubmitStep(r)
       ELSE /\ UNCHANGED sessionVars
            /\ UNCHANGED invVars
            /\ UNCHANGED <<navVars, filterVars, rowVars, predVars>>

\* Any other call made with the api instance: thunks, Profile, Register, ...
ApiSend(r) ==
    /\ ~Busy
    /\ \E element \in {"children", "Register", "ForgotPassword", "ResetPassword"} :
            Shown(element)
    /\ Fresh(r)
    /\ req' = [req EXCEPT ![r] = [pc |-> "inflight", via |-> "api", caller |-> "screen",
                                  authorization |-> requestInterceptor(storage),
                                  outcome |-> NoOutcome]]
    /\ UNCHANGED <<auth, storage, location, view, redirecting, granted>>
    /\ UNCHANGED invVars
    /\ UNCHANGED extVars

\* The Stock screen that calls axios.get / axios.post directly.
AxiosSend(r) ==
    /\ ~Busy
    /\ Shown("children")
    /\ location = "/stock"
    /\ Fresh(r)
    /\ req' = [req EXCEPT ![r] = [pc |-> "inflight", via |-> "axios", caller |-> "screen",
                                  authorization |-> NoHeader,
                                  outcome |-> NoOutcome]]
    /\ UNCHANGED <<auth, storage, location, view, redirecting, granted>>
    /\ UNCHANGED invVars
    /\ UNCHANGED extVars

\* ------------------------------------------------------------ responses
\* Mutant: a failed request is sent once more, on the next free slot.
interceptorReturnRetries(q, r, outcome) ==
    LET handed == [q EXCEPT ![r].pc = "intercepted", ![r].outcome = outcome]
        free == {f \in DOMAIN q : q[f].pc = "unsent"} IN
    IF outcome.status # 200 /\ free # {}
    THEN LET f == CHOOSE x \in free : \A y \in free : x <= y IN
         [handed EXCEPT ![f] = [q[r] EXCEPT !.outcome = NoOutcome]]
    ELSE handed

\* What either response interceptor returns: the response itself, or
\* Promise.reject(error) with the error it was given. The outcome goes to
\* the caller's continuation as it arrived and no request is issued.
interceptorReturn(q, r, outcome) ==
    [q EXCEPT ![r].pc = "intercepted", ![r].outcome = outcome]

\* The response (or transport error) of r arrives and passes the response
\* interceptor of the instance it was sent with.
Respond(r, outcome) ==
    /\ ~Busy
    /\ req[r].pc = "inflight"
    /\ outcome \in OutcomesFor(r)
    /\ LET after == IF req[r].via = "api" /\ outcome.status # 200
                    THEN responseInterceptor(storage, redirecting, outcome)
                    ELSE [storage |-> storage, redirecting |-> redirecting] IN
        /\ storage' = after.storage
        /\ redirecting' = after.redirecting
    /\ req' = interceptorReturn(req, r, outcome)
    /\ UNCHANGED <<auth, location, view>>
    /\ granted' = IF req[r].via = "api" /\ outcome.hasResponse /\ outcome.status = Unauthorized
                  THEN Null ELSE granted
    /\ UNCHANGED invVars
    /\ UNCHANGED extVars

\* Mutant: the catch block of Login is skipped when the failure is a 401.
LoginContinuationSkips401(st, outcome) ==
    IF outcome.status = 200
    THEN setLoading(setToken(st, outcome.access), FALSE)
    ELSE IF outcome.hasResponse /\ outcome.status = Unauthorized
    THEN st
    ELSE setLoading(
            setError(st, IF outcome.detail # NoMessage THEN outcome.detail ELSE LoginFallback),
            FALSE)

\* Login.handleSubmit after the await.
LoginContinuation(st, outcome) ==
    IF outcome.status = 200
    THEN setLoading(setToken(st, outcome.access), FALSE)
    ELSE setLoading(
            setError(st, IF outcome.detail # NoMessage THEN outcome.detail ELSE LoginFallback),
            FALSE)

\* The caller's continuation runs with the settled promise.
Deliver(r) ==
    /\ req[r].pc = "intercepted"
    /\ req' = [req EXCEPT ![r] = Gone("settled")]
    /\ IF req[r].caller = "Login"
       THEN LET st == LoginContinuation(Cur, req[r].outcome) IN
            /\ auth' = st.auth
            /\ storage' = st.storage
            /\ location' = IF req[r].outcome.status = 200 THEN "/" ELSE location
       ELSE UNCHANGED <<auth, storage, location>>
    /\ UNCHANGED <<view, redirecting>>
    /\ granted' = IF req[r].caller = "Login" /\ req[r].outcome.status = 200
                  THEN req[r].outcome.access ELSE granted
    /\ formData' = IF req[r].caller = "Login" /\ req[r].outcome.status # 200
                   THEN [formData EXCEPT !.password = <<>>] ELSE formData
    /\ UNCHANGED validationErrors
    /\ UNCHANGED invVars
    /\ UNCHANGED <<navVars, filterVars, rowVars, predVars>>

\* ------------------------------------------------------------ page load
\* The document is replaced: by the pending window.location.href = '/login',
\* or by the user reloading. The store is rebuilt from localStorage and the
\* requests of the old document are gone.
Load(path) ==
    /\ ~Busy
    /\ view # "none"
    /\ auth' = initialState(storage)
    /\ location' = path
    /\ view' = "none"
    /\ req' = [r \in Requests |->
                 IF req[r].pc = "inflight" THEN Gone("aborted") ELSE req[r]]
    /\ redirecting' = FALSE
    /\ screen' = "none"
    /\ inventory' = inventoryInitialState
    /\ form' = NoForm
    /\ calls' = [c \in Slots |-> Idle]
    /\ formData' = formDataInitial
    /\ validationErrors' = NoErrors
    /\ filters' = filtersInitial
    /\ items' = <<>>
    /\ rowCalls' = [c \in Slots |-> IdleRowCall]
    /\ selection' = selectionInitial
    /\ predictions' = predictionsInitialState
    /\ predCalls' = [c \in Slots |-> IdlePredCall]
    /\ UNCHANGED <<storage, granted, resource, backend>>

PageLoad ==
    /\ Load(IF redirecting THEN "/login" ELSE location)
    /\ UNCHANGED navVars

\* The page load with its history entries: the assignment to
\* window.location.href adds an entry, a reload keeps the current one; the
\* entries of the document that goes away are no longer live.
NavPageLoad ==
    /\ Load(IF redirecting THEN "/login" ELSE location)
    /\ history' = IF redirecting THEN push(Unloaded(history), "/login")
                  ELSE replace(Unloaded(history), location)

\* The browser's Back button. An entry of the document on display is
\* reached by popstate (the router follows, the next render shows it); an
\* entry of an earlier document is loaded again. The entries left behind
\* are not followed: nothing here navigates forward.
NavBack ==
    /\ ~redirecting
    /\ Len(history) >= 2
    /\ LET h == SubSeq(history, 1, Len(history) - 1)
           entry == h[Len(h)] IN
        IF entry.live
        THEN /\ ~Busy
             /\ view # "none"
             /\ location' = entry.path
             /\ history' = h
             /\ UNCHANGED <<auth, storage, view, req, redirecting, granted>>
             /\ UNCHANGED invVars
             /\ UNCHANGED otherVars
        ELSE /\ Load(entry.path)
             /\ history' = replace(Unloaded(h), entry.path)

Next ==
    \/ Render
    \/ \E p \in Paths : Goto(p)
    \/ LoginErrorTimer
    \/ handleLogout
    \/ DispatchClearError
    \/ \E r \in Requests : LoginSubmit(r)
    \/ \E r \in Requests : ApiSend(r)
    \/ \E r \in Requests : AxiosSend(r)
    \/ \E r \in Requests : \E o \in LoginOutcomes \cup ScreenOutcomes : Respond(r, o)
    \/ \E r \in Requests : Deliver(r)
    \/ PageLoad

Spec == Init /\ [][Next]_vars

\* ------------------------------------------------------ inventory actions
\* A signed-in user on a protected location, before the first render.
InitInv ==
    /\ Init
    /\ storage \in Tokens
    /\ location = "/"

\* The calls of a screen or form that is unmounted lose their caller: its
\* state setters do nothing any more. Their reducers still run.
Orphaned(cs) ==
    [c \in Slots |-> IF cs[c].pc = "inflight" THEN [cs[c] EXCEPT !.caller = "unmounted"]
                     ELSE cs[c]]

\* The user opens screen s from the sidebar: the screen on display unmounts
\* (the inventory Categories screen dispatches clearError on its way out),
\* s mounts and its mount effect dispatches its fetches.
Mount(s) ==
    /\ Shown("children")
    /\ s # screen
    /\ Cardinality(FreeSlots(calls)) >= Len(MountEffect(s))
    /\ screen' = s
    /\ form' = NoForm
    /\ LET left == IF screen = "InventoryCategories"
                   THEN inventoryClearError(inventory) ELSE inventory
           st == dispatchAll([calls |-> Orphaned(calls), inventory |-> left],
                             MountEffect(s), "screen") IN
        /\ calls' = st.calls
        /\ inventory' = st.inventory
    /\ UNCHANGED <<auth, storage, location, view, req, redirecting, granted>>
    /\ UNCHANGED extVars

\* Add button (row = NoArg) or handleEdit(row) of Products, Categories, Stock.
handleEdit(row) ==
    /\ Shown("children")
    /\ FormOf(screen) # "none"
    /\ ~Spinner(screen, inventory)
    /\ form.open = "none"
    /\ form' = [NoForm EXCEPT !.open = FormOf(screen), !.row = row]
    /\ UNCHANGED <<auth, storage, location, view, req, redirecting, granted,
                   screen, inventory, calls>>
    /\ UNCHANGED extVars

\* onClose from the close or Cancel button (both disabled while submitting).
onClose ==
    /\ Shown("children")
    /\ form.open # "none"
    /\ ~Spinner(screen, inventory)
    /\ ~form.isSubmitting
    /\ form' = NoForm
    /\ UNCHANGED <<auth, storage, location, view, req, redirecting, granted,
                   screen, inventory, calls>>
    /\ UNCHANGED extVars

\* Mutant: the submit button of a form is never disabled.
SubmitNeverDisabled(f) ==
    FALSE

\* <button type="submit" disabled={isSubmitting}> of the three forms.
SubmitDisabled(f) ==
    f.isSubmitting

\* handleSubmit of a form up to the await: setIsSubmitting(true),
\* setError(null), dispatch(update...(row) or create...()).
handleSubmit ==
    /\ Shown("children")
    /\ form.open # "none"
    /\ ~Spinner(screen, inventory)
    /\ ~SubmitDisabled(form)
    /\ FreeSlots(calls) # {}
    /\ form' = [form EXCEPT !.isSubmitting = TRUE, !.error = NoMessage]
    /\ LET type == CHOOSE t \in FormThunks(form.open) :
                        (t \in UpdateThunks) <=> (form.row # NoArg)
           st == dispatch([calls |-> calls, inventory |-> inventory], type, form.row, "form") IN
        /\ calls' = st.calls
        /\ inventory' = st.inventory
    /\ UNCHANGED <<auth, storage, location, view, req, redirecting, granted, screen>>
    /\ UNCHANGED extVars

\* handleDelete(id) from the delete button of a row, confirmed by the user.
handleDelete(id) ==
    /\ Shown("children")
    /\ DeleteThunk(screen) # "none"
    /\ ~Spinner(screen, inventory)
    /\ DeleteThunk(screen) = "deleteCategory" =>
            \E i \in 1..Len(inventory.categories) :
                /\ inventory.categories[i].id = id
                /\ ~DeleteDisabled(screen, inventory.categories[i])
    /\ FreeSlots(calls) # {}
    /\ LET st == dispatch([calls |-> calls, inventory |-> inventory],
                          DeleteThunk(screen), id, "screen") IN
        /\ calls' = st.calls
        /\ inventory' = st.inventory
    /\ UNCHANGED <<auth, storage, location, view, req, redirecting, granted, screen, form>>
    /\ UNCHANGED extVars

\* The response of call c arrives: the response interceptor, the thunk's
\* catch, the fulfilled or rejected reducer, then the caller's continuation
\* (a form closes on success and shows its text on failure; handleDelete
\* only logs to the console).
Settle(c, outcome) ==
    /\ calls[c].pc = "inflight"
    /\ outcome \in ThunkOutcomes(calls[c].type, calls[c].arg, inventory)
    /\ LET after == IF outcome.status # 200
                    THEN responseInterceptor(storage, redirecting, outcome)
                    ELSE [storage |-> storage, redirecting |-> redirecting] IN
        /\ storage' = after.storage
        /\ redirecting' = after.redirecting
    /\ granted' = IF outcome.hasResponse /\ outcome.status = Unauthorized THEN Null ELSE granted
    /\ inventory' = IF outcome.status = 200
                    THEN fulfilled(inventory, calls[c].type, calls[c].arg, outcome.data)
                    ELSE rejected(inventory, calls[c].type,
                                  rejectWithValue(calls[c].type, outcome))
    /\ form' = IF calls[c].caller # "form" THEN form
               ELSE IF outcome.status = 200 THEN NoForm
               ELSE [form EXCEPT !.error = FormFailure(form.open), !.isSubmitting = FALSE]
    /\ calls' = [calls EXCEPT ![c] = Settled(outcome.status # 200)]
    /\ UNCHANGED <<auth, location, view, req, screen>>
    /\ UNCHANGED extVars

NextInv ==
    \/ Render
    \/ PageLoad
    \/ \E s \in Screens : Mount(s)
    \/ \E row \in Ids \cup {NoArg} : handleEdit(row)
    \/ onClose
    \/ handleSubmit
    \/ \E id \in Ids : handleDelete(id)
    \/ \E c \in Slots : \E o \in AllThunkOutcomes : Settle(c, o)

SpecInv == InitInv /\ [][NextInv]_vars

\* --------------------------------------------- session history (SpecNav)
\* The session with the tab's history followed: a page just loaded.
InitNav ==
    /\ InitCore
    /\ resource = "none"
    /\ history = <<Entry(location, TRUE)>>

NextNav ==
    \/ NavRender
    \/ \E p \in Paths : NavGoto(p)
    \/ NavLogout
    \/ NavPageLoad
    \/ NavBack
    \/ \E r \in Requests : ApiSend(r)
    \/ \E r \in Requests : \E o \in LoginOutcomes \cup ScreenOutcomes : Respond(r, o)
    \/ \E r \in Requests : Deliver(r)

SpecNav == InitNav /\ [][NextNav]_vars

\* ------------------------------------------------ Login form (SpecLogin)
\* A page just loaded at /login.
InitLogin ==
    /\ Init
    /\ location = "/login"

NextLogin ==
    \/ Render
    \/ \E value \in Usernames : handleChange("username", value)
    \/ \E value \in Passwords : handleChange("password", value)
    \/ \E r \in Requests : LoginHandleSubmit(r)
    \/ \E r \in Requests : \E o \in LoginOutcomes \cup ScreenOutcomes : Respond(r, o)
    \/ \E r \in Requests : Deliver(r)
    \/ LoginErrorTimer
    \/ PageLoad

SpecLogin == InitLogin /\ [][NextLogin]_vars

\* --------------------------------------------------- filters (SpecFilters)
\* Products.handleFilterChange: a select of the filter panel changes.
handleFilterChange(name, value) ==
    /\ Shown("children")
    /\ value \in FilterValues[name]
    /\ filters' = setFilter(filters, "products", name, value)
    /\ filters' # filters
    /\ UNCHANGED <<sessionVars, invVars, navVars, loginVars, rowVars, predVars>>

\* Categories.handleSearch of the inventory Categories screen.
handleSearch(value) ==
    /\ Shown("children")
    /\ filters' = setFilter(filters, "categories", "search", value)
    /\ filters' # filters
    /\ UNCHANGED <<sessionVars, invVars, navVars, loginVars, rowVars, predVars>>

\* Categories.handleSort(field): the order is toggled, then sortBy and
\* sortOrder are written.
handleSort(field) ==
    /\ Shown("children")
    /\ LET hasOrder == "sortOrder" \in DOMAIN filters.categories
           newOrder == IF hasOrder /\ filters.categories.sortOrder = "asc"
                       THEN "desc" ELSE "asc" IN
        filters' = setFilter(setFilter(filters, "categories", "sortBy", field),
                             "categories", "sortOrder", newOrder)
    /\ UNCHANGED <<sessionVars, invVars, navVars, loginVars, rowVars, predVars>>

\* The Clear Filters button of Products: dispatch(clearFilters('products')),
\* the one place that dispatches clearFilters.
DispatchClearFilters ==
    /\ Shown("children")
    /\ filters' = clearFilters(filters, "products")
    /\ UNCHANGED <<sessionVars, invVars, navVars, loginVars, rowVars, predVars>>

NextFilters ==
    \/ Render
    \/ \E name \in {"category", "stockStatus"} :
            \E value \in FilterValues.category \cup FilterValues.stockStatus :
                handleFilterChange(name, value)
    \/ \E value \in FilterValues.search : handleSearch(value)
    \/ \E field \in FilterValues.sortBy : handleSort(field)
    \/ DispatchClearFilters

SpecFilters == InitInv /\ [][NextFilters]_vars

\* ----------------------------------------------- predictions (SpecPred)
FreePredSlots == {c \in Slots : predCalls[c].pc # "inflight"}

\* The effect on [selectedProduct, timeRange] of InventoryPredictions:
\* if (selectedProduct) dispatch(fetchPredictions({productId, days})).
selectionEffect(sel) ==
    IF sel.selectedProduct = ""
    THEN UNCHANGED <<predictions, predCalls>>
    ELSE /\ FreePredSlots # {}
         /\ predictions' = predictionsPending(predictions)
         /\ LET c == CHOOSE x \in FreePredSlots : \A y \in FreePredSlots : x <= y IN
            predCalls' = [predCalls EXCEPT ![c] =
                            [pc |-> "inflight", productId |-> sel.selectedProduct,
                             days |-> sel.timeRange]]

\* The Select Product control: setSelectedProduct(value), then the effect.
\* The options are the products of the store, whose rows are not followed.
setSelectedProduct(value) ==
    /\ Shown("children")
    /\ screen = "Predictions"
    /\ value # selection.selectedProduct
    /\ selection' = [selection EXCEPT !.selectedProduct = value]
    /\ selectionEffect([selection EXCEPT !.selectedProduct = value])
    /\ UNCHANGED <<sessionVars, invVars, navVars, loginVars, filterVars, rowVars>>

\* The Time Range control: setTimeRange(value), then the effect.
setTimeRange(value) ==
    /\ Shown("children")
    /\ screen = "Predictions"
    /\ value # selection.timeRange
    /\ selection' = [selection EXCEPT !.timeRange = value]
    /\ selectionEffect([selection EXCEPT !.timeRange = value])
    /\ UNCHANGED <<sessionVars, invVars, navVars, loginVars, filterVars, rowVars>>

\* The response of fetchPredictions call c arrives: the response
\* interceptor, the thunk's catch, then the fulfilled or rejected reducer.
SettlePredictions(c, outcome) ==
    /\ predCalls[c].pc = "inflight"
    /\ LET after == IF outcome.status # 200
                    THEN responseInterceptor(storage, redirecting, outcome)
                    ELSE [storage |-> storage, redirecting |-> redirecting] IN
        /\ storage' = after.storage
        /\ redirecting' = after.redirecting
    /\ granted' = IF outcome.hasResponse /\ outcome.status = Unauthorized THEN Null ELSE granted
    /\ predictions' =
            IF outcome.status = 200
            THEN predictionsFulfilled(predictions,
                                      PredictionFor(predCalls[c].productId, predCalls[c].days))
            ELSE predictionsRejected(predictions, rejectWithValue("fetchPredictions", outcome))
    /\ predCalls' = [predCalls EXCEPT ![c] = IdlePredCall]
    /\ UNCHANGED <<auth, location, view, req, selection>>
    /\ UNCHANGED <<invVars, navVars, loginVars, filterVars, rowVars>>

\* The answers to fetchPredictions: the data, or a failure.
PredictionOutcomes ==
    {ThunkSuccess(<<>>), ThunkNetworkError, ThunkFailure(400, <<"Server error">>),
     ThunkFailure(Unauthorized, NoMessage)}

NextPred ==
    \/ Render
    \/ PageLoad
    \/ Mount("Predictions")
    \/ \E c \in Slots : \E o \in AllThunkOutcomes : Settle(c, o)
    \/ \E value \in Ids \cup {""} : setSelectedProduct(value)
    \/ \E value \in TimeRanges : setTimeRange(value)
    \/ \E c \in Slots : \E o \in PredictionOutcomes : SettlePredictions(c, o)

SpecPred == InitInv /\ [][NextPred]_vars

\* ------------------------------------------------ list rows (SpecRows)
\* A signed-in user; the list that is followed is any of the three.
InitRows ==
    /\ InitCore
    /\ storage \in Tokens
    /\ location = "/"
    /\ history = <<>>
    /\ resource \in Resources

FreeRowSlots == {c \in Slots : rowCalls[c].pc = "idle"}

\* A thunk of the followed list is dispatched: the fetch of a mount effect,
\* the create or update of a form's handleSubmit, the delete of a row's
\* button. Update and delete are offered for the rows on display. The
\* loading and error flags of the slice are not followed here.
DispatchRows(verb, arg) ==
    /\ Shown("children")
    /\ FreeRowSlots # {}
    /\ IF verb \in {"update", "delete"} THEN arg \in IdsOf(items) ELSE arg = NoArg
    /\ LET c == CHOOSE x \in FreeRowSlots : \A y \in FreeRowSlots : x <= y IN
        rowCalls' = [rowCalls EXCEPT ![c] =
                        [pc |-> "inflight", type |-> ThunkOf(resource, verb), arg |-> arg,
                         ok |-> FALSE, data |-> <<>>]]
    /\ UNCHANGED <<resource, items, backend>>
    /\ UNCHANGED <<sessionVars, invVars, navVars, loginVars, filterVars, predVars>>

\* The request of call c reaches the backend, which handles it (served) or
\* fails without touching its table; the answer is on its way back.
AnswerRows(c, served) ==
    /\ rowCalls[c].pc = "inflight"
    /\ LET answer == IF served THEN handled(backend, rowCalls[c].type, rowCalls[c].arg)
                      ELSE [ok |-> FALSE, data |-> <<>>, db |-> backend] IN
        /\ backend' = answer.db
        /\ rowCalls' = [rowCalls EXCEPT ![c].pc = "answered", ![c].ok = answer.ok,
                                        ![c].data = answer.data]
    /\ UNCHANGED <<resource, items>>
    /\ UNCHANGED <<sessionVars, invVars, navVars, loginVars, filterVars, predVars>>

\* The answer to call c arrives: the fulfilled case of its thunk runs on
\* the list; a rejection (a failure other than a 401) has no case that
\* touches a list.
SettleRows(c) ==
    /\ rowCalls[c].pc = "answered"
    /\ items' = IF rowCalls[c].ok
                THEN listFulfilled(items, rowCalls[c].type, rowCalls[c].arg, rowCalls[c].data)
                ELSE items
    /\ rowCalls' = [rowCalls EXCEPT ![c] = IdleRowCall]
    /\ UNCHANGED <<resource, backend>>
    /\ UNCHANGED <<sessionVars, invVars, navVars, loginVars, filterVars, predVars>>

NextRows ==
    \/ Render
    \/ \E verb \in {"fetch", "create", "update", "delete"} :
            \E arg \in Ids \cup {NoArg} : DispatchRows(verb, arg)
    \/ \E c \in Slots : \E served \in BOOLEAN : AnswerRows(c, served)
    \/ \E c \in Slots : SettleRows(c)

SpecRows == InitRows /\ [][NextRows]_vars

\* ------------------------------------------------------------ step names
\* r's response arrives with status 401 through the api instance.
Gateway401(r) ==
    /\ req[r].pc = "inflight"
    /\ req[r].via = "api"
    /\ req'[r].pc = "intercepted"
    /\ req'[r].outcome.hasResponse
    /\ req'[r].outcome.status = Unauthorized

\* r is sent: it leaves the caller with its headers fixed.
Sent(r) == req[r].pc = "unsent" /\ req'[r].pc = "inflight"

\* The Login continuation of r runs with a 200 and dispatches setToken.
LoginSucceeds(r) ==
    /\ req[r].pc = "intercepted"
    /\ req[r].caller = "Login"
    /\ req[r].outcome.status = 200
    /\ req'[r].pc = "settled"

\* The Login continuation of r dispatches setError with a message that
\* contains 'Invalid username or password'.
LoginRejectsCredentials(r) ==
    /\ req[r].pc = "intercepted"
    /\ req[r].caller = "Login"
    /\ req[r].outcome.status # 200
    /\ includes(req[r].outcome.detail, InvalidCredentials)
    /\ req'[r].pc = "settled"

\* The rejection of a 401 that came through the api instance is with r's
\* caller: the interceptor has returned Promise.reject(error).
Rejected401(r) ==
    /\ req[r].pc = "intercepted"
    /\ req[r].via = "api"
    /\ req[r].outcome.hasResponse
    /\ req[r].outcome.status = Unauthorized

\* The caller's continuation of r runs in this step.
Settles(r) == req[r].pc = "intercepted" /\ req'[r].pc = "settled"

\* The page load that completes a redirect the Gateway started.
RedirectCompletes == redirecting /\ ~redirecting'

\* auth.token, auth.isAuthenticated or the stored token changes in this step.
SessionChanges ==
    \/ auth'.token # auth.token
    \/ auth'.isAuthenticated # auth.isAuthenticated
    \/ storage' # storage

\* An error outcome that is not an authorization failure.
OtherFailure(o) == o.status # 200 /\ ~(o.hasResponse /\ o.status = Unauthorized)

\* ------------------------------------------------------------ claims
\* C1: between synchronous steps, auth.isAuthenticated is true exactly when
\* auth.token is present and localStorage holds a 'token'.
C1_AuthenticatedIffStored ==
    ~Busy => (auth.isAuthenticated <=> (auth.token # Null /\ storage # Null))

\* C2: once a request sent through the Gateway has come back with a 401, the
\* Session is Anonymous in memory, no token is stored and the redirect to
\* /login is under way.
C2_AnonymousAfter401 ==
    \A r \in Requests :
        (req[r].pc = "intercepted" /\ req[r].via = "api"
            /\ req[r].outcome.hasResponse /\ req[r].outcome.status = Unauthorized)
        => /\ ~auth.isAuthenticated
           /\ auth.token = Null
           /\ storage = Null
           /\ redirecting

\* C3: once the Gateway has invalidated the session (the token is removed,
\* the redirect is pending) and its rejection has been handled, the next
\* render of every protected location produces the redirect and not the
\* protected children.
C3_NoStaleRender ==
    (redirecting /\ storage = Null /\ ~Busy)
        => \A path \in ProtectedPaths : App(path, auth.isAuthenticated) = "Navigate"

\* C4: at every location outside the four public routes a render produces
\* the protected children if and only if the Session is Authenticated at
\* that render, and for an Anonymous session it produces the redirect to
\* /login.
C4_GuardIffAuthenticated ==
    [][(location \notin PublicPaths /\ Render)
        => /\ (view' = "children" <=> auth.isAuthenticated)
           /\ (~auth.isAuthenticated => view' = "Navigate" /\ location' = "/login")]_vars

\* C4 witness: the guard has turned an Anonymous session away to /login.
C4_Redirected ==
    view = "Navigate" /\ location = "/login" /\ ~auth.isAuthenticated

\* C5: every request sent while a token is stored carries
\* Authorization: Bearer <the token stored at that moment>.
C5_EveryRequestCarriesToken ==
    [][\A r \in Requests :
        (Sent(r) /\ Truthy(storage)) => req'[r].authorization = <<"Bearer", storage>>]_vars

\* C6: when the rejection of a 401 is about to be delivered to its caller,
\* the stored token has already been removed and the redirect to /login
\* has already been triggered.
C6_InvalidatedBeforeRejection ==
    \A r \in Requests :
        (req[r].pc = "intercepted" /\ req[r].via = "api"
            /\ req[r].outcome.hasResponse /\ req[r].outcome.status = Unauthorized)
        => (storage = Null /\ redirecting)

\* C6 witness: a 401 rejection is pending delivery while the session that
\* sent it is still the one in memory.
C6_RejectionPending ==
    \E r \in Requests :
        /\ req[r].pc = "intercepted"
        /\ req[r].via = "api"
        /\ req[r].outcome.hasResponse
        /\ req[r].outcome.status = Unauthorized
        /\ req[r].authorization # NoHeader

\* C7: the Gateway's handling of a 401 leaves auth.token,
\* auth.isAuthenticated and the stored token as logout() would leave them
\* from the same state.
C7_InvalidateEqualsLogout ==
    [][\A r \in Requests :
        Gateway401(r) =>
            /\ auth'.token = logout(Cur).auth.token
            /\ auth'.isAuthenticated = logout(Cur).auth.isAuthenticated
            /\ storage' = logout(Cur).storage]_vars

\* C8 as stated: auth.token, auth.isAuthenticated and the stored token
\* change only in a setToken, a logout or the Gateway's invalidation on a
\* 401 (its page load included).
C8_OnlyThreeTransitions ==
    [][SessionChanges =>
        \/ \E r \in Requests : LoginSucceeds(r)
        \/ handleLogout
        \/ \E r \in Requests : Gateway401(r)
        \/ RedirectCompletes]_vars

\* C8 amended: they change only in a setToken, a logout, the Gateway's
\* invalidation on a 401, or a setError whose message contains 'Invalid
\* username or password'; Anonymous becomes Authenticated only by setToken.
C8_TransitionsWithSetError ==
    /\ [][SessionChanges =>
            \/ \E r \in Requests : LoginSucceeds(r)
            \/ handleLogout
            \/ \E r \in Requests : Gateway401(r)
            \/ RedirectCompletes
            \/ \E r \in Requests : LoginRejectsCredentials(r)]_vars
    /\ [][(~auth.isAuthenticated /\ auth'.isAuthenticated)
            => \E r \in Requests : LoginSucceeds(r)]_vars

\* C8 witness: setError has stored a message without the credentials text
\* and the session is still Authenticated with its token stored.
C8_ErrorKeptSession ==
    /\ auth.error = <<"Server error">>
    /\ auth.isAuthenticated
    /\ storage # Null
    /\ storage = auth.token

\* C9 as stated: a non-401 failure passes the Gateway unchanged and neither
\* the Gateway nor the caller's handling of it changes auth.token,
\* auth.isAuthenticated or the stored token.
C9_OtherFailuresKeepSession ==
    [][\A r \in Requests :
        /\ (req[r].pc = "inflight" /\ req'[r].pc = "intercepted" /\ OtherFailure(req'[r].outcome))
            => ~SessionChanges /\ redirecting' = redirecting
        /\ (req[r].pc = "intercepted" /\ req'[r].pc = "settled" /\ OtherFailure(req[r].outcome))
            => ~SessionChanges /\ redirecting' = redirecting]_vars

\* C9 amended: the Gateway changes nothing on a non-401 failure, and the
\* caller's handling changes the session only when the Login screen hands a
\* detail containing 'Invalid username or password' to setError.
C9_OtherFailuresKeepSessionUnlessCredentials ==
    [][\A r \in Requests :
        /\ (req[r].pc = "inflight" /\ req'[r].pc = "intercepted" /\ OtherFailure(req'[r].outcome))
            => ~SessionChanges /\ redirecting' = redirecting
        /\ (req[r].pc = "intercepted" /\ req'[r].pc = "settled" /\ OtherFailure(req[r].outcome))
            => /\ redirecting' = redirecting
               /\ (SessionChanges => LoginRejectsCredentials(r))]_vars

\* C9 witness: a non-401 failure is on its way to its caller and the token
\* is still stored and in memory.
C9_FailurePassedThrough ==
    \E r \in Requests :
        /\ req[r].pc = "intercepted"
        /\ req[r].via = "api"
        /\ OtherFailure(req[r].outcome)
        /\ storage # Null
        /\ auth.isAuthenticated

\* C10: a successful login with {access: t} leaves auth.token = t,
\* isAuthenticated and 'token' = t in localStorage, and every request sent
\* afterwards carries Bearer t until the next setToken, logout or 401
\* invalidation.
C10_LoginThenBearer ==
    /\ [][\A r \in Requests :
            LoginSucceeds(r) =>
                /\ auth'.token = req[r].outcome.access
                /\ auth'.isAuthenticated
                /\ storage' = req[r].outcome.access]_vars
    /\ [][\A r \in Requests :
            (Sent(r) /\ granted # Null) => req'[r].authorization = <<"Bearer", granted>>]_vars

\* C11: in the state a page load leaves (start or reload), the Session is
\* Authenticated exactly when a token is stored, auth.token is the stored
\* item and no request is on its way; from any state, setToken(t) followed
\* by a reload gives an Authenticated session with token t and logout
\* followed by a reload gives an Anonymous one.
C11_StartupFromStorage ==
    /\ view = "none" =>
        /\ (auth.isAuthenticated <=> storage # Null)
        /\ auth.token = storage
        /\ \A r \in Requests : req[r].pc \notin {"inflight", "intercepted"}
    /\ \A t \in Tokens :
        LET reloaded == initialState(setToken(Cur, t).storage) IN
            reloaded.isAuthenticated /\ reloaded.token = t
    /\ LET reloaded == initialState(logout(Cur).storage) IN
            ~reloaded.isAuthenticated /\ reloaded.token = Null

\* C11 witness: the page has been reloaded after a request was settled and
\* the session started Authenticated from the stored token.
C11_ReloadedWithToken ==
    /\ view = "none"
    /\ auth.isAuthenticated
    /\ auth.token = storage
    /\ \E r \in Requests : req[r].pc = "settled"

\* C12: logout is idempotent: a second logout changes nothing the first one
\* left, and a logout in an Anonymous session leaves it Anonymous with no
\* token in memory or in storage.
C12_LogoutIdempotent ==
    /\ logout(logout(Cur)) = logout(Cur)
    /\ ~auth.isAuthenticated =>
        /\ ~logout(Cur).auth.isAuthenticated
        /\ logout(Cur).auth.token = Null
        /\ logout(Cur).storage = Null

\* C12 witness: Navbar.handleLogout has run from an Authenticated session:
\* the session is Anonymous at /login with the protected screen's last
\* render still on display.
C12_LoggedOut ==
    /\ ~auth.isAuthenticated
    /\ auth.token = Null
    /\ storage = Null
    /\ location = "/login"
    /\ view = "children"
    /\ ~redirecting

\* C13 as stated: a 401 is handled by the Gateway alone and the caller's
\* own error handler does not run for it: the continuation of a request
\* rejected with a 401 changes nothing in the store.
C13_401NeverReachesCaller ==
    [][\A r \in Requests : (Rejected401(r) /\ Settles(r)) => auth' = auth]_vars

\* C13 amended: the Gateway handles a 401 once (token removed, redirect
\* triggered, at the arrival of the response and not again at delivery) and
\* then rejects to the caller, whose own error handler runs with it: the
\* Login screen stores the response's detail, or its fallback text, in
\* auth.error and ends loading.
C13_401HandledThenDelivered ==
    [][\A r \in Requests :
        /\ Gateway401(r) => (storage' = Null /\ redirecting' /\ auth' = auth)
        /\ (Rejected401(r) /\ Settles(r)) =>
            /\ redirecting' = redirecting
            /\ req[r].caller = "Login" =>
                /\ auth'.error = IF req[r].outcome.detail # NoMessage
                                 THEN req[r].outcome.detail ELSE LoginFallback
                /\ ~auth'.loading]_vars

\* C13 witness: the only request sent was a login, it came back 401 without
\* a detail, the Gateway started the redirect and the Login catch block has
\* put its fallback text in auth.error.
C13_LoginSaw401 ==
    /\ req[1].pc = "settled"
    /\ req[2].pc = "unsent"
    /\ redirecting
    /\ storage = Null
    /\ auth.error = LoginFallback

C18_InvalidationUnconditional ==
    [][\A r \in Requests : Gateway401(r) => (storage' = Null /\ redirecting')]_vars

\* C18 witness: a request sent without the token of the session that a login
\* has since opened came back 401, and the token of that new session has
\* been removed from storage.
C18_NewerTokenRemoved ==
    \E r \in Requests :
        /\ Rejected401(r)
        /\ auth.isAuthenticated
        /\ view = "Login"
        /\ location = "/"
        /\ req[r].authorization # <<"Bearer", auth.token>>
        /\ storage = Null

\* C19: handling a response never issues a request: a step in which a
\* request receives its response, is delivered or is dropped sends nothing,
\* and a step that sends, sends exactly one request.
C19_NoRetry ==
    [][/\ (\E r \in Requests : req[r].pc \in {"inflight", "intercepted"}
                                /\ req'[r].pc # req[r].pc)
            => \A q \in Requests : ~Sent(q)
       /\ Cardinality({q \in Requests : Sent(q)}) <= 1]_vars

\* C19 witness: one login was sent, it failed with a 400, the failure was
\* delivered to the Login screen, and the second request slot was never used.
C19_FailedOnce ==
    /\ req[1].pc = "settled"
    /\ req[2].pc = "unsent"
    /\ auth.error = <<"Server error">>
    /\ view = "Login"
    /\ ~redirecting

\* C20: a request in flight is never dropped by the client: while the
\* redirect that another request's 401 triggered is pending, it stays in
\* flight or receives its response.
C20_NeverCancelled ==
    [][\A r \in Requests :
        (req[r].pc = "inflight" /\ redirecting) => req'[r].pc # "aborted"]_vars

\* An error text is on display: the alert of the open form, or the alert
\* the Dashboard renders for inventory.error. Products, Categories and Stock
\* select inventory.error and never render it.
VisibleError ==
    \/ form.open # "none" /\ form.error # NoMessage /\ ~Spinner(screen, inventory)
    \/ screen = "Dashboard" /\ ~inventory.loading /\ inventory.error # NoMessage

\* The resource a product, category or stock thunk works on.
Resource(type) ==
    CASE type \in {"fetchProducts", "createProduct", "updateProduct", "deleteProduct"}
            -> "products"
      [] type \in {"fetchCategories", "createCategory", "updateCategory", "deleteCategory"}
            -> "categories"
      [] type \in {"fetchStock", "createStock", "updateStock", "deleteStock"} -> "stocks"
      [] OTHER -> "none"

\* C14: when a failed call has been handled while the screen or form that
\* made it is still mounted, an error text is on display or the redirect
\* to /login is under way.
C14_EveryFailureShown ==
    [][\A c \in Slots :
        (/\ calls[c].pc = "inflight"
         /\ calls[c].caller \in {"screen", "form"}
         /\ calls'[c].pc = "settled"
         /\ calls'[c].failed)
        => (VisibleError' \/ redirecting')]_vars

C16_ThunkEndpoints ==
    \A c \in Slots :
        (calls[c].pc = "inflight" /\ Resource(calls[c].type) # "none")
        => calls[c].url =
            <<"api", Resource(calls[c].type)>>
                \o (IF calls[c].type \in UpdateThunks \cup DeleteThunks
                    THEN <<calls[c].arg>> ELSE <<>>)

\* C23: for the session in memory and every location, the automatic
\* redirects (the guard's Navigate, the Login effect, and the page load of
\* the Gateway's redirect, after which the same renders follow) settle: the
\* location reached after two renders is left where it is by every further
\* render, so /login and a protected route never alternate.
C23_RedirectsSettle ==
    \A path \in Paths : \A session \in {auth.isAuthenticated, Truthy(storage)} :
        LET once == Committed(path, session)
            twice == Committed(once, session) IN
        /\ Committed(twice, session) = twice
        /\ (session => twice \notin {"/login"})
        /\ (~session => twice \notin ProtectedPaths)

\* C23 witness: the Gateway has redirected after a 401, the page has been
\* loaded, and the renders that followed have settled on the Login screen.
C23_SettledOnLogin ==
    /\ view = "Login"
    /\ location = "/login"
    /\ ~auth.isAuthenticated
    /\ storage = Null
    /\ ~redirecting
    /\ \E r \in Requests : req[r].pc = "settled"
    /\ Committed(location, auth.isAuthenticated) = location

\* The Login continuation of r runs with a failed response that carries a
\* detail string.
LoginFailsWithDetail(r) ==
    /\ req[r].pc = "intercepted"
    /\ req[r].caller = "Login"
    /\ req[r].outcome.status # 200
    /\ req[r].outcome.hasResponse
    /\ req[r].outcome.detail # NoMessage
    /\ req'[r].pc = "settled"

\* C22: when the login request of an Anonymous session fails with a
\* response that carries a detail, the Login screen ends up showing that
\* detail: auth.error is the detail, the session is Anonymous, auth.loading
\* is false, and the document that shows it is not about to be replaced.
C22_LoginFailureShown ==
    [][\A r \in Requests :
          (LoginFailsWithDetail(r) /\ ~auth.isAuthenticated)
              => /\ auth'.error = req[r].outcome.detail
                 /\ ~auth'.isAuthenticated
                 /\ ~auth'.loading
                 /\ view' = "Login"
                 /\ ~redirecting']_vars

\* C24: inventory.loading is true in every state in which at least one of
\* fetchProducts, fetchCategories, fetchStock, fetchDashboardData is pending.
C24_LoadingWhilePending ==
    (\E c \in Slots : calls[c].pc = "inflight" /\ calls[c].type \in FetchThunks)
        => inventory.loading

\* The create and update calls of the form on display that are in flight.
FormCalls == {c \in Slots : calls[c].pc = "inflight" /\ calls[c].caller = "form"}

\* C29: a form has at most one create or update request in flight; from the
\* dispatch until that request settles isSubmitting is true (the submit
\* button is disabled), and it is false whenever no request of the form is
\* in flight, after a success as well as after a failure.
C29_OneSubmission ==
    /\ Cardinality(FormCalls) <= 1
    /\ \A c \in FormCalls : calls[c].type \in FormThunks(form.open)
    /\ SubmitDisabled(form) <=> FormCalls # {}
    /\ form.isSubmitting <=> FormCalls # {}

\* C29 witness: the request of a form has failed, the form shows its text
\* and can be submitted again.
C29_FailedAndEnabled ==
    /\ form.open # "none"
    /\ form.error # NoMessage
    /\ ~form.isSubmitting
    /\ FormCalls = {}
    /\ \E c \in Slots : calls[c].pc = "settled" /\ calls[c].failed

\* The render in which the Route Guard turns an Anonymous session away (a
\* Back step can change the same variables the same way; it is told apart
\* by the entry it drops).
GuardRedirects ==
    /\ RenderStep
    /\ App(location, auth.isAuthenticated) = "Navigate"
    /\ Len(history') >= Len(history)

\* The Back button pressed on the Login screen of an Anonymous session.
BackFromLogin ==
    /\ view = "Login"
    /\ ~auth.isAuthenticated
    /\ Len(history) >= 2
    /\ history' = replace(Unloaded(SubSeq(history, 1, Len(history) - 1)), location')
       \/ history' = SubSeq(history, 1, Len(history) - 1)
    /\ location' = history[Len(history) - 1].path

SubmitRefused ==
    /\ validationErrors' # validationErrors
    /\ validationErrors' # NoErrors
    /\ formData' = formData

\* C30: the Login screen sends POST /api/auth/token/ only when the username
\* is non-blank after trimming and the password has at least 8 characters;
\* a refused submission sends no request and leaves auth.token,
\* auth.isAuthenticated, auth.loading and the stored token unchanged.
C30_ValidatedBeforeSend ==
    [][/\ \A r \in Requests :
            (Sent(r) /\ req'[r].caller = "Login")
                => /\ trim(formData.username) # <<>>
                   /\ Len(formData.password) >= MinPassword
       /\ SubmitRefused =>
            /\ req' = req
            /\ trim(formData.username) = <<>> \/ Len(formData.password) < MinPassword
            /\ auth'.token = auth.token
            /\ auth'.isAuthenticated = auth.isAuthenticated
            /\ auth'.loading = auth.loading
            /\ storage' = storage]_vars

\* C30 witness: a submission with a username and a 7-character password
\* has been refused: the error is on display and nothing has been sent.
C30_ShortPasswordRefused ==
    /\ view = "Login"
    /\ trim(formData.username) # <<>>
    /\ Len(formData.password) = MinPassword - 1
    /\ validationErrors.password = "Password must be at least 8 characters"
    /\ \A r \in Requests : req[r].pc = "unsent"
    /\ ~auth.loading

\* C28: clearFilters(section) restores that section's filters to their
\* initial values, every field of the initial state still present (search,
\* category, sortBy, sortOrder, stockStatus for products; search, sortBy,
\* sortOrder for categories), and leaves the other section alone.
C28_ClearRestoresInitial ==
    [][DispatchClearFilters
          => /\ DOMAIN filters'.products = DOMAIN filtersInitial.products
             /\ filters'.products = filtersInitial.products
             /\ filters'.categories = filters.categories]_vars

\* C25: when no fetchPredictions is pending (and the latest answer was not
\* a failure), the predictions in the store are the ones returned for the
\* product and time range selected now, whatever order the answers to
\* earlier selections arrived in.
C25_LatestSelectionShown ==
    (/\ screen = "Predictions"
     /\ selection.selectedProduct # ""
     /\ \A c \in Slots : predCalls[c].pc # "inflight"
     /\ predictions.error = NoMessage)
        => predictions.predictions =
                PredictionFor(selection.selectedProduct, selection.timeRange)

\* C26: products, categories and stock each hold at most one entry per id,
\* whatever the order in which fetch, create, update and delete complete
\* against a backend that assigns unique ids.
C26_OneEntryPerId ==
    Cardinality(IdsOf(items)) = Len(items)

\* The answer to call c is handed to the reducers in this step.
RowsSettle(c) == rowCalls[c].pc = "answered" /\ rowCalls'[c].pc = "idle"

\* C27: a fulfilled delete(id) removes exactly the entries with that id; a
\* fulfilled update replaces only an entry with the payload's id, and
\* nothing when there is none; a rejected create, update or delete leaves
\* the list as it was. Every other entry keeps its place and content.
C27_ListFrame ==
    [][\A c \in Slots : RowsSettle(c) =>
          LET call == rowCalls[c] IN
          /\ (~call.ok /\ call.type \notin FetchThunks) => items' = items
          /\ (call.ok /\ call.type \in DeleteThunks) =>
                /\ call.arg \notin IdsOf(items')
                /\ items' = SelectSeq(items, LAMBDA r : r.id # call.arg)
          /\ (call.ok /\ call.type \in UpdateThunks) =>
                /\ Len(items') = Len(items)
                /\ \A i \in 1..Len(items) :
                        \/ items'[i] = items[i]
                        \/ items[i].id = call.data[1].id /\ items'[i] = call.data[1]
                /\ call.data[1].id \in IdsOf(items) => call.data[1] \in {items'[i] : i \in 1..Len(items')}
                /\ call.data[1].id \notin IdsOf(items) => items' = items]_vars

\* C27 witness: row 1 was created and deleted, row 2 created and updated,
\* and the list shows exactly that.
C27_DeletedAndUpdated ==
    /\ backend.used = {"1", "2"}
    /\ backend.table = {Row("2", 1)}
    /\ items = <<Row("2", 1)>>
    /\ \A c \in Slots : rowCalls[c].pc = "idle"

====
